---- MODULE Spec2Model ----
(***************************************************************************)
(* State-machine model of src/backend-example/server.js: the seven express *)
(* route handlers of the note-taking API and the two MongoDB collections   *)
(* they share.                                                             *)
(*                                                                         *)
(* Granularity.  Node runs a handler without interruption up to its next   *)
(* `await` of a store call, so one action is either the synchronous        *)
(* prefix of a handler (request parsing, validation, jwt.verify) or one    *)
(* store call together with the handler code that runs when it returns.    *)
(* Handlers of different requests interleave at those points only.         *)
(***************************************************************************)
EXTENDS Integers, Sequences, FiniteSets, TLC

(***************************************************************************)
(* Bounds of the model.                                                    *)
(***************************************************************************)
MaxUsers == 2      \* documents the users collection may hold
MaxNotes == 1      \* notes ever created (ObjectIds handed out)
MaxAge   == 1      \* hours between a token's issuance and its presentation
MaxOwned == 2      \* notes ever created when requests arrive one at a time

Reqs      == {1, 2}                  \* slots of requests that may be in flight together
Usernames == {"alice", "bob"}
Passwords == {"pw1", "pw2"}
Salts     == {"s1", "s2"}

\* "" stands for a body field that is missing or empty: both are falsy in
\* JavaScript and take the same branch of every check in the file.  Titles
\* are "t1" (postNote) and "t2" (editNote), contents "c1" and "c2".
UsernameInputs == Usernames \cup {""}
PasswordInputs == Passwords \cup {""}

\* jwt.sign(..., { expiresIn: "1h" }): the lifetime, in hours.
ExpiresIn == 1

\* :noteId values.  0 stands for every string ObjectId.isValid rejects,
\* n > 0 for the well-formed string of the n-th ObjectId.
MalformedId  == 0
NoteIdParams == 0 .. MaxNotes

VARIABLES
    users,     \* db.collection("users"): sequence of {username, password}
    notes,     \* db.collection("notes"): sequence of {_id, title, content, username}
    nextId,    \* the next ObjectId insertOne assigns
    created,   \* history: created[id] is what note id was created with (its
               \* username, title and content) and where its life stands:
               \* "new", "updated" once an update has matched it,
               \* "deleted" once a delete has removed it
    req        \* req[r]: the request in slot r and the position of its handler

vars == <<users, notes, nextId, created, req>>

(***************************************************************************)
(* bcrypt                                                                  *)
(***************************************************************************)
NoHash == [salt |-> "", plain |-> ""]
NoUser == [username |-> "", password |-> NoHash]

\* bcrypt.hash(password, 10): a digest under a fresh salt.
BcryptHash(password, salt) == [salt |-> salt, plain |-> password]

\* bcrypt.compare(password, digest).
BcryptCompare(password, digest) ==
    BcryptHash(password, digest.salt) = digest

(***************************************************************************)
(* jsonwebtoken.  Time is counted in hours from the moment a token is      *)
(* signed (iat = 0); a request that carries the token says how many hours  *)
(* after that moment jwt.verify reads the clock.                           *)
(***************************************************************************)
NoToken == [username |-> "", exp |-> 0, sig |-> "none"]

\* jwt.sign({ username }, "secret-key", { expiresIn: "1h" })
JwtSign(username) ==
    [username |-> username, exp |-> ExpiresIn, sig |-> "ok"]

\* jwt.verify with ignoreExpiration: only the signature is checked.
JwtVerifyErr_SigOnly(token, now) == token.sig # "ok"

\* jwt.verify(token, "secret-key", cb): TRUE when cb gets err.
JwtVerifyErr(token, now) ==
    \/ token.sig # "ok"
    \/ now >= token.exp

\* decoded.username handed to cb when there is no err.
JwtDecoded(token) == token.username

(***************************************************************************)
(* Request headers                                                         *)
(***************************************************************************)
\* req.headers.authorization: absent, or "Bearer <token>" (age: the hours
\* since the token was signed).
NoHeader == [present |-> FALSE, token |-> NoToken, age |-> 0]
Bearer(token, age) == [present |-> TRUE, token |-> token, age |-> age]

\* A token with a signature the secret key did not make, or an altered one.
Forged(username) == [username |-> username, exp |-> ExpiresIn, sig |-> "bad"]

\* The Authorization headers a client can send: none, a token that
\* register or login issued for a username (every success of either leaves
\* or finds a users document of that name), at some age, or a token the
\* client made up or altered.
IssuedHeaders(ages) ==
    {Bearer(JwtSign(users[i].username), a) : i \in DOMAIN users, a \in ages}

AuthInputs ==
    {NoHeader} \cup IssuedHeaders(0 .. MaxAge)
               \cup {Bearer(Forged(u), 0) : u \in Usernames}

\* The headers of clients that send the token they were issued, in time.
FreshAuthInputs == IssuedHeaders({0})

\* req.headers.authorization.split(" ")[1] throws a TypeError without header.
SplitThrows(auth) == ~auth.present
SplitToken(auth) == auth.token

(***************************************************************************)
(* ObjectId                                                                *)
(***************************************************************************)
ObjectIdIsValid(noteId) == noteId # MalformedId

(***************************************************************************)
(* Collections                                                             *)
(***************************************************************************)
NoNote == [_id |-> 0, title |-> "", content |-> "", username |-> ""]

Range(s) == {s[i] : i \in DOMAIN s}

\* Some document of the users collection carries the username.
Registered(username) == \E i \in DOMAIN users : users[i].username = username

\* A lookup that never finds the username.
UsersMatching_None(username) == {u \in Range(users) : FALSE}

\* userCollection.findOne({ username }): the documents it may return.
UsersMatching(username) == {u \in Range(users) : u.username = username}

\* A filter on _id alone.
NoteMatches_IdOnly(n, username, noteId) == n._id = noteId

\* The filter { username, _id } of the note handlers.
NoteMatches(n, username, noteId) == n.username = username /\ n._id = noteId

NotesMatching(username, noteId) ==
    {n \in Range(notes) : NoteMatches(n, username, noteId)}

\* The ids of the documents a filter { username, _id } selects.
MatchedIds(username, noteId) == {n._id : n \in NotesMatching(username, noteId)}

\* collection.find({ username }).toArray()
NotesOf(username) == SelectSeq(notes, LAMBDA n : n.username = username)

(***************************************************************************)
(* Requests                                                                *)
(***************************************************************************)
Idle ==
    [op |-> "none", pc |-> "idle",
     username |-> "", password |-> "", title |-> "", content |-> "",
     noteId |-> 0, auth |-> NoHeader,
     decoded |-> "", found |-> FALSE, originalNote |-> NoNote, matched |-> FALSE,
     status |-> 0, msg |-> "", token |-> NoToken, data |-> <<>>, insertedId |-> 0,
     calls |-> 0, failed |-> FALSE, prior |-> FALSE]

Finished(r) == req[r].pc \in {"idle", "done", "rejected"}

\* A new request takes the lowest slot whose handler is over.
Free(r) == Finished(r) /\ \A s \in Reqs : s < r => ~Finished(s)

\* res.status(status).json(...) / res.send(...): the handler is over.
Respond(q, status, msg, token, data) ==
    [q EXCEPT !.pc = "done", !.status = status, !.msg = msg,
              !.token = token, !.data = data]

\* The handler awaits its next store call at position pc.
Await(q, pc) == [q EXCEPT !.pc = pc, !.calls = q.calls + 1]

\* A store call threw inside the async callback given to jwt.verify: the
\* promise of the callback rejects, the surrounding try/catch is long gone
\* and nothing answers the request.
Reject(q) == [q EXCEPT !.pc = "rejected", !.failed = TRUE]

\* A store call threw inside the handler's own try block: catch sends 500.
\* A call that throws leaves its collection as it was.
Catch500(q) ==
    Respond([q EXCEPT !.failed = TRUE], 500, "StoreError", NoToken, <<>>)

Pending(op) == Cardinality({r \in Reqs : req[r].op = op /\ ~Finished(r)})

Init ==
    /\ users = <<>>
    /\ notes = <<>>
    /\ nextId = 1
    /\ created = <<>>
    /\ req = [r \in Reqs |-> Idle]

(***************************************************************************)
(* POST /registerUser                                                      *)
(***************************************************************************)
RegisterStart(r, username, password) ==
    /\ Free(r)
    /\ Len(users) + Pending("register") < MaxUsers
    /\ LET q == [Idle EXCEPT !.op = "register", !.username = username,
                             !.password = password,
                             !.prior = Registered(username)]
       IN req' = [req EXCEPT ![r] =
                     IF username = "" \/ password = ""
                     THEN Respond(q, 400, "Username and password both needed to register.",
                                  NoToken, <<>>)
                     ELSE Await(q, "reg_find")]
    /\ UNCHANGED <<users, notes, nextId, created>>

RegisterFindOne(r, mayFail) ==
    /\ req[r].pc = "reg_find"
    /\ \/ /\ mayFail
          /\ req' = [req EXCEPT ![r] = Catch500(req[r])]
       \/ /\ UsersMatching(req[r].username) # {}
          /\ req' = [req EXCEPT ![r] =
                        Respond(req[r], 400, "Username already exists.", NoToken, <<>>)]
       \/ /\ UsersMatching(req[r].username) = {}
          /\ req' = [req EXCEPT ![r] = Await(req[r], "reg_insert")]
    /\ UNCHANGED <<users, notes, nextId, created>>

\* An insert that is applied although the handler ends in its catch block.
RegisterInsertOne_WriteThenThrow(r, salt, mayFail) ==
    /\ req[r].pc = "reg_insert"
    /\ users' = Append(users,
                       [username |-> req[r].username,
                        password |-> BcryptHash(req[r].password, salt)])
    /\ req' = [req EXCEPT ![r] =
                  IF mayFail
                  THEN Catch500(req[r])
                  ELSE Respond(req[r], 201, "User registered successfully.",
                               JwtSign(req[r].username), <<>>)]
    /\ UNCHANGED <<notes, nextId, created>>

RegisterInsertOne(r, salt, mayFail) ==
    /\ req[r].pc = "reg_insert"
    /\ \/ /\ mayFail
          /\ req' = [req EXCEPT ![r] = Catch500(req[r])]
          /\ UNCHANGED users
       \/   /\ users' = Append(users,
                               [username |-> req[r].username,
                                password |-> BcryptHash(req[r].password, salt)])
            /\ req' = [req EXCEPT ![r] =
                          Respond(req[r], 201, "User registered successfully.",
                                  JwtSign(req[r].username), <<>>)]
    /\ UNCHANGED <<notes, nextId, created>>

(***************************************************************************)
(* POST /loginUser                                                         *)
(***************************************************************************)
\* An if/else that tells an unknown username from a wrong password.
LoginResponse_Leaky(q, found, user) ==
    IF ~found
    THEN Respond(q, 404, "User not found.", NoToken, <<>>)
    ELSE IF BcryptCompare(q.password, user.password)
    THEN Respond(q, 200, "User logged in succesfully.", JwtSign(q.username), <<>>)
    ELSE Respond(q, 401, "Authentication failed.", NoToken, <<>>)

\* The response of the if/else at lines 92-99 for what findOne returned
\* (found = FALSE: null).
LoginResponse(q, found, user) ==
    IF found /\ BcryptCompare(q.password, user.password)
    THEN Respond(q, 200, "User logged in succesfully.", JwtSign(q.username), <<>>)
    ELSE Respond(q, 401, "Authentication failed.", NoToken, <<>>)

LoginStart(r, username, password) ==
    /\ Free(r)
    /\ LET q == [Idle EXCEPT !.op = "login", !.username = username,
                             !.password = password,
                             !.prior = \E i \in DOMAIN users :
                                          /\ users[i].username = username
                                          /\ users[i].password.plain = password]
       IN req' = [req EXCEPT ![r] =
                     IF username = "" \/ password = ""
                     THEN Respond(q, 400, "Username and password both needed to login.",
                                  NoToken, <<>>)
                     ELSE Await(q, "login_find")]
    /\ UNCHANGED <<users, notes, nextId, created>>

LoginFindOne(r, mayFail) ==
    /\ req[r].pc = "login_find"
    /\ \/ /\ mayFail
          /\ req' = [req EXCEPT ![r] = Catch500(req[r])]
       \/ /\ UsersMatching(req[r].username) = {}
          /\ req' = [req EXCEPT ![r] = LoginResponse(req[r], FALSE, NoUser)]
       \/ \E user \in UsersMatching(req[r].username) :
            req' = [req EXCEPT ![r] =
                       LoginResponse([req[r] EXCEPT !.found = TRUE], TRUE, user)]
    /\ UNCHANGED <<users, notes, nextId, created>>

(***************************************************************************)
(* The note handlers.  Each reads the Authorization header and calls       *)
(* jwt.verify before its first store call; the rest of the handler is the  *)
(* async callback given to jwt.verify.                                     *)
(***************************************************************************)
\* A handler that reads the token and goes on without the if (err) return.
Authenticate_NoVerify(q, auth, next) ==
    IF SplitThrows(auth)
    THEN Respond(q, 500, "TypeError", NoToken, <<>>)
    ELSE next

\* Lines 117-121, 150-154, 178-182, 206-210, 245-249: q when the callback
\* goes on, the request answered otherwise.
Authenticate(q, auth, next) ==
    IF SplitThrows(auth)
    THEN Respond(q, 500, "TypeError", NoToken, <<>>)
    ELSE IF JwtVerifyErr(SplitToken(auth), auth.age)
    THEN Respond(q, 401, "Unauthorized.", NoToken, <<>>)
    ELSE next

Verified(q, auth) == [q EXCEPT !.decoded = JwtDecoded(SplitToken(auth))]

(***************************************************************************)
(* POST /postNote                                                          *)
(***************************************************************************)
PostNoteStart(r, title, content, auth) ==
    /\ Free(r)
    /\ LET q == [Idle EXCEPT !.op = "postNote", !.title = title,
                             !.content = content, !.auth = auth]
       IN req' = [req EXCEPT ![r] =
                     IF title = "" \/ content = ""
                     THEN Respond(q, 400, "Title and content are both required.",
                                  NoToken, <<>>)
                     ELSE Authenticate(q, auth, Await(Verified(q, auth), "post_insert"))]
    /\ UNCHANGED <<users, notes, nextId, created>>

\* A document that stores the two body fields under each other's name.
NewNote_Swapped(q, id) ==
    [_id |-> id, title |-> q.content, content |-> q.title, username |-> q.decoded]

\* The document of lines 125-129, with the id the store gives it.
NewNote(q, id) ==
    [_id |-> id, title |-> q.title, content |-> q.content, username |-> q.decoded]

PostNoteInsertOne(r, mayFail) ==
    /\ req[r].pc = "post_insert"
    /\ \/ /\ mayFail
          /\ req' = [req EXCEPT ![r] = Reject(req[r])]
          /\ UNCHANGED <<notes, nextId, created>>
       \/ /\ notes' = Append(notes, NewNote(req[r], nextId))
          /\ nextId' = nextId + 1
          /\ created' = Append(created, [username |-> req[r].decoded,
                                         title |-> req[r].title,
                                         content |-> req[r].content,
                                         life |-> "new"])
          /\ req' = [req EXCEPT ![r] =
                        Respond([req[r] EXCEPT !.insertedId = nextId], 200,
                                "Note added succesfully.", NoToken, <<>>)]
    /\ UNCHANGED users

(***************************************************************************)
(* GET /getNote/:noteId                                                    *)
(***************************************************************************)
GetNoteStart(r, noteId, auth) ==
    /\ Free(r)
    /\ LET q == [Idle EXCEPT !.op = "getNote", !.noteId = noteId, !.auth = auth]
       IN req' = [req EXCEPT ![r] =
                     IF ~ObjectIdIsValid(noteId)
                     THEN Respond(q, 400, "Invalid note ID.", NoToken, <<>>)
                     ELSE Authenticate(q, auth, Await(Verified(q, auth), "get_find"))]
    /\ UNCHANGED <<users, notes, nextId, created>>

GetNoteFindOne(r, mayFail) ==
    /\ req[r].pc = "get_find"
    /\ \/ /\ mayFail
          /\ req' = [req EXCEPT ![r] = Reject(req[r])]
       \/ /\ NotesMatching(req[r].decoded, req[r].noteId) = {}
          /\ req' = [req EXCEPT ![r] =
                        Respond(req[r], 404, "Unable to find note with given ID.",
                                NoToken, <<>>)]
       \/ \E n \in NotesMatching(req[r].decoded, req[r].noteId) :
            req' = [req EXCEPT ![r] =
                       Respond([req[r] EXCEPT !.found = TRUE], 200, "", NoToken, <<n>>)]
    /\ UNCHANGED <<users, notes, nextId, created>>

(***************************************************************************)
(* GET /getAllNotes                                                        *)
(***************************************************************************)
GetAllNotesStart(r, auth) ==
    /\ Free(r)
    /\ LET q == [Idle EXCEPT !.op = "getAllNotes", !.auth = auth]
       IN req' = [req EXCEPT ![r] =
                     Authenticate(q, auth, Await(Verified(q, auth), "all_find"))]
    /\ UNCHANGED <<users, notes, nextId, created>>

GetAllNotesFind(r, mayFail) ==
    /\ req[r].pc = "all_find"
    /\ \/ /\ mayFail
          /\ req' = [req EXCEPT ![r] = Reject(req[r])]
       \/ req' = [req EXCEPT ![r] =
                     Respond(req[r], 200, "", NoToken, NotesOf(req[r].decoded))]
    /\ UNCHANGED <<users, notes, nextId, created>>

(***************************************************************************)
(* GET /deleteNote/:noteId.  findOneAndDelete and findOneAndUpdate return  *)
(* the matched document, or null when the filter matches none (the         *)
(* driver's default since mongodb 6), which is what `if (!data)` tests.    *)
(***************************************************************************)
DeleteNoteStart(r, noteId, auth) ==
    /\ Free(r)
    /\ LET q == [Idle EXCEPT !.op = "deleteNote", !.noteId = noteId, !.auth = auth]
       IN req' = [req EXCEPT ![r] =
                     IF ~ObjectIdIsValid(noteId)
                     THEN Respond(q, 400, "Invalid note ID.", NoToken, <<>>)
                     ELSE Authenticate(q, auth, Await(Verified(q, auth), "del_delete"))]
    /\ UNCHANGED <<users, notes, nextId, created>>

DeleteNoteFindOneAndDelete(r, mayFail) ==
    /\ req[r].pc = "del_delete"
    /\ \/ /\ mayFail
          /\ req' = [req EXCEPT ![r] = Reject(req[r])]
          /\ UNCHANGED <<notes, created>>
       \/ /\ NotesMatching(req[r].decoded, req[r].noteId) = {}
          /\ req' = [req EXCEPT ![r] =
                        Respond(req[r], 404, "Unable to find note with given ID.",
                                NoToken, <<>>)]
          /\ UNCHANGED <<notes, created>>
       \/ /\ NotesMatching(req[r].decoded, req[r].noteId) # {}
          /\ notes' = SelectSeq(notes, LAMBDA n :
                                  ~NoteMatches(n, req[r].decoded, req[r].noteId))
          /\ created' = [i \in DOMAIN created |->
                           IF i \in MatchedIds(req[r].decoded, req[r].noteId)
                           THEN [created[i] EXCEPT !.life = "deleted"]
                           ELSE created[i]]
          /\ req' = [req EXCEPT ![r] =
                        Respond([req[r] EXCEPT !.found = TRUE], 200,
                                "Document deleted succesfully.", NoToken, <<>>)]
    /\ UNCHANGED <<users, nextId>>

(***************************************************************************)
(* GET /editNote/:noteId                                                   *)
(***************************************************************************)
EditNoteStart(r, noteId, title, content, auth) ==
    /\ Free(r)
    /\ LET q == [Idle EXCEPT !.op = "editNote", !.noteId = noteId, !.title = title,
                             !.content = content, !.auth = auth]
           v == Verified(q, auth)
       IN req' = [req EXCEPT ![r] =
                     IF ~ObjectIdIsValid(noteId)
                     THEN Respond(q, 400, "Invalid note ID.", NoToken, <<>>)
                     ELSE Authenticate(q, auth,
                            IF title = "" /\ content = ""
                            THEN Respond(v, 400,
                                   "A title or content are needed to update the note",
                                   NoToken, <<>>)
                            ELSE Await(v, "edit_find"))]
    /\ UNCHANGED <<users, notes, nextId, created>>

EditNoteFindOne(r, mayFail) ==
    /\ req[r].pc = "edit_find"
    /\ \/ /\ mayFail
          /\ req' = [req EXCEPT ![r] = Reject(req[r])]
       \/ /\ NotesMatching(req[r].decoded, req[r].noteId) = {}
          /\ req' = [req EXCEPT ![r] =
                        Respond(req[r], 404, "Unable to find note with given ID.",
                                NoToken, <<>>)]
       \/ \E n \in NotesMatching(req[r].decoded, req[r].noteId) :
            req' = [req EXCEPT ![r] =
                       Await([req[r] EXCEPT !.found = TRUE, !.originalNote = n],
                             "edit_update")]
    /\ UNCHANGED <<users, notes, nextId, created>>

\* A $set of the body as it came, without the fallback to the original.
EditSet_Overwrite(q) == [title |-> q.title, content |-> q.content]

\* The $set document of lines 275-278.
EditSet(q) ==
    [title   |-> IF q.title # "" THEN q.title ELSE q.originalNote.title,
     content |-> IF q.content # "" THEN q.content ELSE q.originalNote.content]

\* The answer of the handler once findOneAndUpdate has returned (matched:
\* whether its filter found a note, that is, data is not null).
EditNoteResponse(q, matched) ==
    Respond([q EXCEPT !.matched = matched, !.originalNote = NoNote], 200,
            "Document properly updated.", NoToken, <<>>)

\* findOneAndUpdate with upsert: a filter that matches nothing inserts the
\* document of its filter and $set.
EditNoteFindOneAndUpdate_Upsert(r, mayFail) ==
    /\ req[r].pc = "edit_update"
    /\ \/ /\ mayFail
          /\ req' = [req EXCEPT ![r] = Reject(req[r])]
          /\ UNCHANGED <<notes, created>>
       \/ /\ notes' =
               IF NotesMatching(req[r].decoded, req[r].noteId) = {}
               THEN Append(notes, [_id |-> req[r].noteId,
                                   username |-> req[r].decoded,
                                   title |-> EditSet(req[r]).title,
                                   content |-> EditSet(req[r]).content])
               ELSE [i \in DOMAIN notes |->
                       IF NoteMatches(notes[i], req[r].decoded, req[r].noteId)
                       THEN [notes[i] EXCEPT !.title = EditSet(req[r]).title,
                                             !.content = EditSet(req[r]).content]
                       ELSE notes[i]]
          /\ created' = [i \in DOMAIN created |->
                           IF i \in MatchedIds(req[r].decoded, req[r].noteId)
                           THEN [created[i] EXCEPT !.life = "updated"]
                           ELSE created[i]]
          /\ req' = [req EXCEPT ![r] =
                        EditNoteResponse(req[r],
                            NotesMatching(req[r].decoded, req[r].noteId) # {})]
    /\ UNCHANGED <<users, nextId>>

\* An update by { username } alone (updateMany): every note of the caller.
EditNoteFindOneAndUpdate_Many(r, mayFail) ==
    /\ req[r].pc = "edit_update"
    /\ \/ /\ mayFail
          /\ req' = [req EXCEPT ![r] = Reject(req[r])]
          /\ UNCHANGED <<notes, created>>
       \/ /\ notes' = [i \in DOMAIN notes |->
                         IF notes[i].username = req[r].decoded
                         THEN [notes[i] EXCEPT !.title = EditSet(req[r]).title,
                                               !.content = EditSet(req[r]).content]
                         ELSE notes[i]]
          /\ created' = [i \in DOMAIN created |->
                           IF i \in MatchedIds(req[r].decoded, req[r].noteId)
                           THEN [created[i] EXCEPT !.life = "updated"]
                           ELSE created[i]]
          /\ req' = [req EXCEPT ![r] =
                        EditNoteResponse(req[r],
                            NotesMatching(req[r].decoded, req[r].noteId) # {})]
    /\ UNCHANGED <<users, nextId>>

EditNoteFindOneAndUpdate(r, mayFail) ==
    /\ req[r].pc = "edit_update"
    /\ \/ /\ mayFail
          /\ req' = [req EXCEPT ![r] = Reject(req[r])]
          /\ UNCHANGED <<notes, created>>
       \/ /\ notes' = [i \in DOMAIN notes |->
                         IF NoteMatches(notes[i], req[r].decoded, req[r].noteId)
                         THEN [notes[i] EXCEPT !.title = EditSet(req[r]).title,
                                               !.content = EditSet(req[r]).content]
                         ELSE notes[i]]
          /\ created' = [i \in DOMAIN created |->
                           IF i \in MatchedIds(req[r].decoded, req[r].noteId)
                           THEN [created[i] EXCEPT !.life = "updated"]
                           ELSE created[i]]
          /\ req' = [req EXCEPT ![r] =
                        EditNoteResponse(req[r],
                            NotesMatching(req[r].decoded, req[r].noteId) # {})]
    /\ UNCHANGED <<users, nextId>>

(***************************************************************************)
(* Specifications.                                                         *)
(*   SpecAuth  - the two account handlers, concurrently, over every        *)
(*               username, password and salt.                              *)
(*               Store calls may throw.                                    *)
(*   SpecNotes - the five note handlers, concurrently, called with tokens  *)
(*               that verify and inputs that pass the handlers' checks;    *)
(*               registration (one password, one salt, one at a time) is   *)
(*               the source of the tokens.                                 *)
(*   SpecGate  - every handler one request at a time, called with every    *)
(*               kind of body, Authorization header and id.  Store calls   *)
(*               may throw.                                                *)
(*   SpecSerial - every note handler one request at a time, called with    *)
(*               tokens that verify and well-formed ids, over every body,  *)
(*               on a store that holds several notes; store calls answer.  *)
(* The note handlers never read the users collection, the account handlers *)
(* never read the notes collection, and a handler reads its header and     *)
(* verifies the token in its first, uninterrupted step.                    *)
(***************************************************************************)
NextAuth ==
    \/ \E r \in Reqs, u \in UsernameInputs, p \in PasswordInputs : RegisterStart(r, u, p)
    \/ \E r \in Reqs, f \in BOOLEAN : RegisterFindOne(r, f)
    \/ \E r \in Reqs, salt \in Salts, f \in BOOLEAN : RegisterInsertOne(r, salt, f)
    \/ \E r \in Reqs, u \in UsernameInputs, p \in PasswordInputs : LoginStart(r, u, p)
    \/ \E r \in Reqs, f \in BOOLEAN : LoginFindOne(r, f)

\* Two requests in flight: registrations arrive on slot 1, note requests
\* on either slot, with a fresh token, a well-formed id and a body the
\* handler accepts (an update carries a title or a content); store calls
\* answer.
NextNotes ==
    \/ \E u \in Usernames : RegisterStart(1, u, "pw1")
    \/ RegisterFindOne(1, FALSE)
    \/ RegisterInsertOne(1, "s1", FALSE)
    \/ \E r \in Reqs, a \in FreshAuthInputs :
          /\ nextId + Pending("postNote") <= MaxNotes
          /\ PostNoteStart(r, "t1", "c1", a)
    \/ \E r \in Reqs : PostNoteInsertOne(r, FALSE)
    \/ \E r \in Reqs, id \in NoteIdParams \ {MalformedId}, a \in FreshAuthInputs :
          GetNoteStart(r, id, a)
    \/ \E r \in Reqs : GetNoteFindOne(r, FALSE)
    \/ \E r \in Reqs, a \in FreshAuthInputs : GetAllNotesStart(r, a)
    \/ \E r \in Reqs : GetAllNotesFind(r, FALSE)
    \/ \E r \in Reqs, id \in NoteIdParams \ {MalformedId}, a \in FreshAuthInputs :
          DeleteNoteStart(r, id, a)
    \/ \E r \in Reqs : DeleteNoteFindOneAndDelete(r, FALSE)
    \/ \E r \in Reqs, id \in NoteIdParams \ {MalformedId},
          b \in {<<"t2", "">>, <<"", "c2">>}, a \in FreshAuthInputs :
          EditNoteStart(r, id, b[1], b[2], a)
    \/ \E r \in Reqs : EditNoteFindOne(r, FALSE)
    \/ \E r \in Reqs : EditNoteFindOneAndUpdate(r, FALSE)

\* One request at a time, with every kind of header, body and id; store
\* calls may throw.
NextGate ==
    \/ \E u \in UsernameInputs, p \in {"", "pw1"} : RegisterStart(1, u, p)
    \/ \E f \in BOOLEAN : RegisterFindOne(1, f)
    \/ \E f \in BOOLEAN : RegisterInsertOne(1, "s1", f)
    \/ \E u \in UsernameInputs, p \in {"", "pw1"} : LoginStart(1, u, p)
    \/ \E f \in BOOLEAN : LoginFindOne(1, f)
    \/ \E t \in {"", "t1"}, c \in {"", "c1"}, a \in AuthInputs :
          /\ nextId + Pending("postNote") <= MaxNotes
          /\ PostNoteStart(1, t, c, a)
    \/ \E f \in BOOLEAN : PostNoteInsertOne(1, f)
    \/ \E id \in NoteIdParams, a \in AuthInputs : GetNoteStart(1, id, a)
    \/ \E f \in BOOLEAN : GetNoteFindOne(1, f)
    \/ \E a \in AuthInputs : GetAllNotesStart(1, a)
    \/ \E f \in BOOLEAN : GetAllNotesFind(1, f)
    \/ \E id \in NoteIdParams, a \in AuthInputs : DeleteNoteStart(1, id, a)
    \/ \E f \in BOOLEAN : DeleteNoteFindOneAndDelete(1, f)
    \/ \E id \in NoteIdParams, t \in {"", "t2"}, c \in {"", "c2"}, a \in AuthInputs :
          EditNoteStart(1, id, t, c, a)
    \/ \E f \in BOOLEAN : EditNoteFindOne(1, f)
    \/ \E f \in BOOLEAN : EditNoteFindOneAndUpdate(1, f)

\* One request at a time on a store of several notes: fresh tokens,
\* well-formed ids, every body; store calls answer.
NextSerial ==
    \/ \E u \in Usernames : RegisterStart(1, u, "pw1")
    \/ RegisterFindOne(1, FALSE)
    \/ RegisterInsertOne(1, "s1", FALSE)
    \/ \E t \in {"", "t1"}, c \in {"", "c1"}, a \in FreshAuthInputs :
          /\ nextId + Pending("postNote") <= MaxOwned
          /\ PostNoteStart(1, t, c, a)
    \/ PostNoteInsertOne(1, FALSE)
    \/ \E id \in 1 .. MaxOwned, a \in FreshAuthInputs : GetNoteStart(1, id, a)
    \/ GetNoteFindOne(1, FALSE)
    \/ \E a \in FreshAuthInputs : GetAllNotesStart(1, a)
    \/ GetAllNotesFind(1, FALSE)
    \/ \E id \in 1 .. MaxOwned, a \in FreshAuthInputs : DeleteNoteStart(1, id, a)
    \/ DeleteNoteFindOneAndDelete(1, FALSE)
    \/ \E id \in 1 .. MaxOwned, t \in {"", "t2"}, c \in {"", "c2"},
          a \in FreshAuthInputs : EditNoteStart(1, id, t, c, a)
    \/ EditNoteFindOne(1, FALSE)
    \/ EditNoteFindOneAndUpdate(1, FALSE)

SpecAuth  == Init /\ [][NextAuth]_vars
SpecNotes == Init /\ [][NextNotes]_vars
SpecGate  == Init /\ [][NextGate]_vars
SpecSerial == Init /\ [][NextSerial]_vars

(***************************************************************************)
(* Vocabulary of the properties.                                           *)
(***************************************************************************)
NoteOps == {"postNote", "getNote", "getAllNotes", "deleteNote", "editNote"}

Done(r) == req[r].pc = "done"

\* What the caller of request r sees.
Response(r) == <<req[r].status, req[r].msg, req[r].token, req[r].data>>

\* The handler of r got an identity out of jwt.verify.
Caller(r) == req[r].decoded

\* r names a note that was created for somebody other than its caller.
ForeignNote(r) ==
    /\ Caller(r) # ""
    /\ req[r].noteId \in DOMAIN created
    /\ created[req[r].noteId].username # Caller(r)

\* The note r names is in the collection.
NoteStored(r) == \E i \in DOMAIN notes : notes[i]._id = req[r].noteId

\* r carried a token and jwt.verify rejects it.
TokenRejected(r) ==
    /\ req[r].op \in NoteOps
    /\ req[r].auth.present
    /\ JwtVerifyErr(req[r].auth.token, req[r].auth.age)

\* The body or the :noteId of r fails the check its handler makes before
\* it reads the Authorization header.
RejectedBeforeAuth(r) ==
    \/ req[r].op = "postNote" /\ (req[r].title = "" \/ req[r].content = "")
    \/ /\ req[r].op \in {"getNote", "deleteNote", "editNote"}
       /\ req[r].noteId = MalformedId

(***************************************************************************)
(* C1.  Two concurrent registrations of one username: exactly one gets     *)
(* 201, the other 400, and the users collection never holds two documents  *)
(* with the same username.                                                 *)
(***************************************************************************)
C1_UniqueUsername ==
    /\ \A i, j \in DOMAIN users :
          i # j => users[i].username # users[j].username
    /\ \A r, s \in Reqs :
          (/\ r # s /\ Done(r) /\ Done(s)
           /\ req[r].op = "register" /\ req[s].op = "register"
           /\ req[r].username = req[s].username)
          => ~(req[r].status = 201 /\ req[s].status = 201)

(***************************************************************************)
(* C2.  A note created by A is hidden from B # A: get, update and delete   *)
(* with B's valid token on its id answer 404, and getAllNotes with B's     *)
(* token never lists it.                                                   *)
(***************************************************************************)
C2_ListsOnlyOwn ==
    \A r \in Reqs :
        (Done(r) /\ req[r].op = "getAllNotes" /\ req[r].status = 200)
        => \A i \in DOMAIN req[r].data :
              /\ req[r].data[i].username = Caller(r)
              /\ created[req[r].data[i]._id].username = Caller(r)

\* The claim as it stands: always 404.
C2_ForeignAlwaysNotFound ==
    /\ \A r \in Reqs :
          (/\ Done(r) /\ req[r].op \in {"getNote", "editNote", "deleteNote"}
           /\ ForeignNote(r))
          => req[r].status = 404
    /\ C2_ListsOnlyOwn

\* C2 as amended: 404, except that an update that supplies neither a title
\* nor a content answers 400 before the note is looked up.
C2_ForeignHidden ==
    /\ \A r \in Reqs :
          (/\ Done(r) /\ req[r].op \in {"getNote", "editNote", "deleteNote"}
           /\ ForeignNote(r))
          => IF req[r].op = "editNote" /\ req[r].title = "" /\ req[r].content = ""
             THEN req[r].status = 400
             ELSE req[r].status = 404
    /\ C2_ListsOnlyOwn

\* B asked for A's note while it was stored, and got 404.
C2_Witness ==
    \E r \in Reqs :
        /\ Done(r) /\ req[r].op = "getNote" /\ ForeignNote(r)
        /\ NoteStored(r) /\ req[r].status = 404

(***************************************************************************)
(* C3.  No update or delete issued with B's token changes or removes a     *)
(* note owned by A # B: every step of such a request leaves each note of   *)
(* another owner in the collection with the same id, owner, title and      *)
(* content.                                                                *)
(***************************************************************************)
C3_StepKeepsForeignNotes ==
    \A r \in Reqs :
        (/\ req'[r] # req[r]
         /\ req[r].op \in {"editNote", "deleteNote"}
         /\ Caller(r) # "")
        => \A i \in DOMAIN notes :
              notes[i].username # Caller(r)
              => \E j \in DOMAIN notes' : notes'[j] = notes[i]

C3_NoForeignMutation == [][C3_StepKeepsForeignNotes]_vars

\* B's delete of A's stored note is over and the note is still there.
C3_Witness ==
    \E r \in Reqs :
        /\ Done(r) /\ req[r].op = "deleteNote" /\ ForeignNote(r)
        /\ NoteStored(r)

(***************************************************************************)
(* C4.  A note operation called with a token that fails verification       *)
(* answers 401 whatever its other inputs are, and makes no store call.     *)
(***************************************************************************)
\* The claim as it stands.
C4_RejectedTokenAlways401 ==
    \A r \in Reqs :
        TokenRejected(r)
        => Done(r) /\ req[r].calls = 0 /\ req[r].status = 401

\* C4 as amended: no store call and never a success; the answer is 401
\* unless the handler's earlier check of the body (postNote) or of the
\* :noteId (getNote, deleteNote, editNote) fails, which answers 400.
C4_RejectedTokenNoStoreCall ==
    \A r \in Reqs :
        TokenRejected(r)
        => /\ Done(r)
           /\ req[r].calls = 0
           /\ req[r].status = IF RejectedBeforeAuth(r) THEN 400 ELSE 401

\* An update with a forged token and an empty body was answered 401.
C4_Witness ==
    \E r \in Reqs :
        /\ Done(r) /\ req[r].op = "editNote" /\ TokenRejected(r)
        /\ req[r].title = "" /\ req[r].content = "" /\ req[r].status = 401

(***************************************************************************)
(* C5.  A note operation called without an Authorization header answers    *)
(* 401, as for an invalid or expired token.                                *)
(***************************************************************************)
\* Stated for the requests whose body and :noteId pass the handler's check.
C5_MissingTokenUnauthorized ==
    \A r \in Reqs :
        (Done(r) /\ req[r].op \in NoteOps /\ ~req[r].auth.present
         /\ ~RejectedBeforeAuth(r))
        => req[r].status = 401

(***************************************************************************)
(* C6.  An update answers success only if its store write matched the      *)
(* note and applied the fields; when a concurrent delete removed the note  *)
(* first, the update answers 404.                                          *)
(***************************************************************************)
C6_UpdateSuccessMeansApplied ==
    \A r \in Reqs :
        (Done(r) /\ req[r].op = "editNote" /\ req[r].calls = 2 /\ ~req[r].failed)
        => IF req[r].matched THEN req[r].status = 200 ELSE req[r].status = 404

(***************************************************************************)
(* C7.  Every request gets exactly one response, and a store call that     *)
(* fails, in any operation, reaches the caller as a 500 response: no       *)
(* handler ends without having answered.                                   *)
(***************************************************************************)
C7_StoreFailureAnswered500 ==
    \A r \in Reqs :
        /\ req[r].pc # "rejected"
        /\ req[r].failed => Done(r) /\ req[r].status = 500

(***************************************************************************)
(* C8.  A login with a registered username and a wrong password and a      *)
(* login with a username that was never registered get the same response:  *)
(* status 401 and the same body.                                           *)
(***************************************************************************)
\* r is a login that findOne answered and that was refused.
LoginRefused(r) ==
    /\ Done(r) /\ req[r].op = "login" /\ ~req[r].failed
    /\ req[r].username # "" /\ req[r].password # ""
    /\ req[r].status # 200

C8_LoginFailuresIndistinguishable ==
    /\ \A r \in Reqs :
          (Done(r) /\ req[r].op = "login" /\ ~req[r].failed
           /\ req[r].username # "" /\ req[r].password # "" /\ ~req[r].found)
          => LoginRefused(r)
    /\ \A r \in Reqs : LoginRefused(r) => req[r].status = 401
    /\ \A r, s \in Reqs :
          (LoginRefused(r) /\ ~req[r].found /\ LoginRefused(s) /\ req[s].found)
          => Response(r) = Response(s)

\* Both responses are out at once: one login named nobody, the other a
\* registered user with a wrong password.
C8_Witness ==
    \E r, s \in Reqs :
        /\ LoginRefused(r) /\ ~req[r].found
        /\ LoginRefused(s) /\ req[s].found /\ Registered(req[s].username)
        /\ ~Registered(req[r].username)

(***************************************************************************)
(* C9.  After register(username, password) has succeeded, a login with the *)
(* same credentials succeeds, and the tokens of both verify to username.   *)
(***************************************************************************)
\* The token r was answered with verifies, to the username of r.
TokenVerifiesToUsername(r) ==
    /\ ~JwtVerifyErr(req[r].token, 0)
    /\ JwtDecoded(req[r].token) = req[r].username

C9_RegisterThenLogin ==
    /\ \A r \in Reqs :
          (Done(r) /\ req[r].op = "register" /\ req[r].status = 201)
          => TokenVerifiesToUsername(r)
    /\ \A r \in Reqs :
          (Done(r) /\ req[r].op = "login" /\ req[r].prior /\ ~req[r].failed)
          => req[r].status = 200 /\ TokenVerifiesToUsername(r)

(***************************************************************************)
(* C10.  Once a register for a username has succeeded, a later register    *)
(* with that username never succeeds and never touches the users           *)
(* collection: it answers 400 (UsernameTaken when it carries a password),  *)
(* or 500 if its own findOne call fails.                                   *)
(***************************************************************************)
\* r is a register that arrived when its username was already registered.
LaterRegister(r) == req[r].op = "register" /\ req[r].prior

C10_LaterRegisterAnswer ==
    \A r \in Reqs :
        LaterRegister(r)
        => /\ req[r].pc # "reg_insert"
           /\ Done(r) =>
                /\ req[r].status = IF req[r].failed THEN 500 ELSE 400
                /\ (req[r].password # "" /\ ~req[r].failed)
                       => req[r].msg = "Username already exists."

C10_LaterRegisterStep ==
    \A r \in Reqs :
        (LaterRegister(r) /\ req'[r] # req[r]) => users' = users

C10_UsernameTaken == []C10_LaterRegisterAnswer /\ [][C10_LaterRegisterStep]_vars

\* A later register with another password was answered UsernameTaken and
\* the stored hash is still the one of the first password.
C10_Witness ==
    \E r \in Reqs :
        /\ Done(r) /\ LaterRegister(r)
        /\ req[r].status = 400 /\ req[r].msg = "Username already exists."
        /\ \A i \in DOMAIN users :
              users[i].username = req[r].username
              => ~BcryptCompare(req[r].password, users[i].password)

(***************************************************************************)
(* C11.  A note operation accepts a token only if register or login issued *)
(* it and less than the lifetime (one hour) has passed since; a token      *)
(* presented after its expiration, or one with a tampered signature or     *)
(* payload, is answered 401 Unauthorized by every note operation.          *)
(***************************************************************************)
\* The handler of r took the token: it went on as decoded.username.
C11_Accepted(r) == req[r].op \in NoteOps /\ Caller(r) # ""

\* The token r carried has expired, or the secret key did not sign it.
C11_ExpiredOrTampered(r) ==
    /\ req[r].op \in NoteOps
    /\ req[r].auth.present
    /\ \/ req[r].auth.token.sig # "ok"
       \/ req[r].auth.age >= ExpiresIn

C11_AcceptedOnlyIfIssuedAndFresh ==
    \A r \in Reqs :
        C11_Accepted(r)
        => /\ req[r].auth.present
           /\ req[r].auth.token.sig = "ok"
           /\ req[r].auth.age < ExpiresIn
           /\ Registered(req[r].auth.token.username)
           /\ Caller(r) = req[r].auth.token.username

\* The claim as it stands: 401 from every note operation.
C11_ExpiredOrTamperedAlways401 ==
    /\ C11_AcceptedOnlyIfIssuedAndFresh
    /\ \A r \in Reqs :
          (Done(r) /\ C11_ExpiredOrTampered(r))
          => req[r].status = 401 /\ req[r].msg = "Unauthorized."

\* C11 as amended: 401, unless the body or the :noteId already failed the
\* check the handler makes before it reads the header, which answers 400;
\* an expired or tampered token is never accepted and its request never
\* reaches the store.
C11_TokenLifetime ==
    /\ C11_AcceptedOnlyIfIssuedAndFresh
    /\ \A r \in Reqs :
          (Done(r) /\ C11_ExpiredOrTampered(r))
          => /\ ~C11_Accepted(r)
             /\ req[r].calls = 0
             /\ IF RejectedBeforeAuth(r)
                THEN req[r].status = 400
                ELSE req[r].status = 401 /\ req[r].msg = "Unauthorized."

\* A token register issued, presented to a note operation an hour later
\* with a body and id the handler takes, and answered 401.
C11_Witness ==
    \E r \in Reqs :
        /\ Done(r) /\ req[r].op \in NoteOps
        /\ req[r].auth.present
        /\ req[r].auth.token.sig = "ok"
        /\ req[r].auth.age >= ExpiresIn
        /\ ~RejectedBeforeAuth(r)
        /\ req[r].status = 401

(***************************************************************************)
(* C12.  Round trip: a note created with a non-empty title and content,    *)
(* then read by getNote with the id postNote returned and a token of the   *)
(* same user, with no update or delete in between, comes back with exactly *)
(* the title and content submitted and the token's username as its owner.  *)
(* Requests arrive one at a time, so the collection a finished request     *)
(* leaves is the one its answer was computed from.                         *)
(***************************************************************************)
\* postNote answers with the id of a document that holds what was sent.
C12_CreateStoresBody ==
    \A r \in Reqs :
        (Done(r) /\ req[r].op = "postNote" /\ req[r].status = 200)
        => /\ req[r].title # "" /\ req[r].content # ""
           /\ \E i \in DOMAIN notes :
                 /\ notes[i]._id = req[r].insertedId
                 /\ notes[i].title = req[r].title
                 /\ notes[i].content = req[r].content
                 /\ notes[i].username = Caller(r)

\* r reads, as its owner, a note no update has matched and no delete removed.
C12_ReadsBack(r) ==
    /\ Done(r) /\ req[r].op = "getNote"
    /\ Caller(r) # ""
    /\ req[r].noteId \in DOMAIN created
    /\ created[req[r].noteId].username = Caller(r)
    /\ created[req[r].noteId].life = "new"

C12_RoundTrip ==
    /\ C12_CreateStoresBody
    /\ \A r \in Reqs :
          C12_ReadsBack(r)
          => /\ req[r].status = 200
             /\ Len(req[r].data) = 1
             /\ req[r].data[1]._id = req[r].noteId
             /\ req[r].data[1].title = created[req[r].noteId].title
             /\ req[r].data[1].content = created[req[r].noteId].content
             /\ req[r].data[1].username = Caller(r)

\* The second note of the collection read back as it was created.
C12_Witness ==
    \E r \in Reqs :
        /\ C12_ReadsBack(r)
        /\ req[r].noteId = 2
        /\ req[r].status = 200
        /\ req[r].data[1].title = "t1" /\ req[r].data[1].content = "c1"

(***************************************************************************)
(* C13.  For an existing note and its owner's valid token: an update that  *)
(* supplies only a title sets the title and leaves the content as it was,  *)
(* and the other way round for an update that supplies only a content; an  *)
(* update that supplies neither (both omitted or empty) is answered 400    *)
(* and leaves the note as it was.                                          *)
(***************************************************************************)
\* The write of r's update: each field supplied is set, the other is kept.
C13_WriteKeepsOmitted(r) ==
    (req[r].pc = "edit_update" /\ req'[r].pc = "done")
    => /\ req'[r].status = 200
       /\ Len(notes') = Len(notes)
       /\ \A i \in DOMAIN notes :
             (notes[i].username = Caller(r) /\ notes[i]._id = req[r].noteId)
             => /\ notes'[i].title =
                      IF req[r].title # "" THEN req[r].title ELSE notes[i].title
                /\ notes'[i].content =
                      IF req[r].content # "" THEN req[r].content
                                             ELSE notes[i].content

\* An update without a title and without a content.
C13_EmptyBodyRefused(r) ==
    (/\ req'[r] # req[r] /\ req'[r].pc = "done"
     /\ req'[r].op = "editNote"
     /\ req'[r].title = "" /\ req'[r].content = "")
    => /\ req'[r].status = 400
       /\ req'[r].calls = 0
       /\ notes' = notes

C13_PartialUpdate ==
    [][\A r \in Reqs : C13_WriteKeepsOmitted(r) /\ C13_EmptyBodyRefused(r)]_vars

\* An update of the content alone has been applied to a note that still
\* has the title it was created with.
C13_Witness ==
    \E r \in Reqs, i \in DOMAIN notes :
        /\ Done(r) /\ req[r].op = "editNote" /\ req[r].matched
        /\ req[r].title = "" /\ req[r].content = "c2"
        /\ notes[i]._id = req[r].noteId
        /\ notes[i].title = "t1" /\ notes[i].content = "c2"

(***************************************************************************)
(* C14.  Two concurrent updates of one note by its owner, one with only a  *)
(* title and the other with only a content, end as some serial order of    *)
(* the two would: the note holds the new title and the new content;        *)
(* neither update writes back a stale value of the field it did not        *)
(* supply.                                                                 *)
(***************************************************************************)
\* r and s are the two updates, both applied to the same note of one owner.
C14_BothApplied(r, s) ==
    /\ r # s /\ Done(r) /\ Done(s)
    /\ req[r].op = "editNote" /\ req[s].op = "editNote"
    /\ req[r].matched /\ req[s].matched
    /\ req[r].noteId = req[s].noteId /\ Caller(r) = Caller(s)
    /\ req[r].title # "" /\ req[r].content = ""
    /\ req[s].title = "" /\ req[s].content # ""

C14_ConcurrentUpdatesSerializable ==
    \A r, s \in Reqs :
        C14_BothApplied(r, s)
        => \E i \in DOMAIN notes :
              /\ notes[i]._id = req[r].noteId
              /\ notes[i].title = req[r].title
              /\ notes[i].content = req[s].content

(***************************************************************************)
(* C15.  A note is deleted at most once and never comes back: of the       *)
(* owner's deletes of one id, sequential or concurrent, exactly one        *)
(* answers 200 and the others 404; after the delete every later getNote of *)
(* the id answers 404 and getAllNotes never lists it, also when an update  *)
(* of the note was in flight during the delete.                            *)
(***************************************************************************)
\* The ids of the notes in the collection.
C15_StoredIds == {notes[i]._id : i \in DOMAIN notes}

\* A delete has removed the note r names.
C15_Deleted(r) ==
    req[r].noteId \in DOMAIN created /\ created[req[r].noteId].life = "deleted"

\* The store call of r's delete: 200 for the owner of a stored note, which
\* is then gone; 404 for everything else, a deleted note first of all.
C15_DeleteOnce(r) ==
    (req[r].pc = "del_delete" /\ req'[r].pc = "done")
    => IF \E i \in DOMAIN notes : /\ notes[i]._id = req[r].noteId
                                  /\ notes[i].username = Caller(r)
       THEN /\ req'[r].status = 200
            /\ ~C15_Deleted(r)
            /\ created'[req[r].noteId].life = "deleted"
       ELSE /\ req'[r].status = 404
            /\ notes' = notes

\* The store call of a read that comes after the delete.
C15_GoneForReaders(r) ==
    /\ (req[r].pc = "get_find" /\ req'[r].pc = "done" /\ C15_Deleted(r))
       => req'[r].status = 404
    /\ (req[r].pc = "all_find" /\ req'[r].pc = "done")
       => \A i \in DOMAIN req'[r].data : created[req'[r].data[i]._id].life # "deleted"

C15_DeletedStaysDeleted ==
    [][/\ \A r \in Reqs : C15_DeleteOnce(r) /\ C15_GoneForReaders(r)
       /\ \A id \in DOMAIN created' :
             created'[id].life = "deleted" => id \notin {notes'[i]._id : i \in DOMAIN notes'}
      ]_vars

\* The note was deleted while an update of it was between its findOne and
\* its findOneAndUpdate; the update has since run, the note is not in the
\* collection and a later getNote by its owner got 404.
C15_Witness ==
    \E r, s \in Reqs :
        /\ Done(r) /\ req[r].op = "editNote" /\ req[r].found /\ ~req[r].matched
        /\ C15_Deleted(r)
        /\ req[r].noteId \notin C15_StoredIds
        /\ Done(s) /\ req[s].op = "getNote" /\ req[s].noteId = req[r].noteId
        /\ Caller(s) = created[req[r].noteId].username
        /\ req[s].status = 404

(***************************************************************************)
(* C16.  An operation that answers with an error (400, 401, 404 or 500)    *)
(* leaves the users and the notes collection exactly as they were before   *)
(* it; a failed input validation (empty username or password, empty title  *)
(* or content, malformed note id, update without a field) is reported      *)
(* without any store call having been made.                                *)
(***************************************************************************)
\* Every step of a request leaves both collections alone, unless it is the
\* step that ends the request with 200 or 201.
C16_WritesOnlyOnSuccess ==
    (users' # users \/ notes' # notes)
    => \E r \in Reqs :
          /\ req'[r] # req[r]
          /\ req'[r].pc = "done"
          /\ req'[r].status \in {200, 201}

\* r came with an input its handler's validation refuses.
C16_InvalidInput(r) ==
    \/ /\ req[r].op \in {"register", "login"}
       /\ (req[r].username = "" \/ req[r].password = "")
    \/ RejectedBeforeAuth(r)
    \/ req[r].op = "editNote" /\ req[r].title = "" /\ req[r].content = ""

\* The answer to such an input is an error, 400 when the validation is the
\* first check to fail, and the handler has called no store.
C16_ValidationBeforeStore(r) ==
    (Done(r) /\ C16_InvalidInput(r))
    => /\ req[r].calls = 0
       /\ req[r].status \in {400, 401, 500}
       /\ (req[r].status = 400)
             <=> (\/ req[r].op \in {"register", "login"}
                  \/ RejectedBeforeAuth(r)
                  \/ Caller(r) # "")

C16_ErrorsLeaveStoreUnchanged ==
    [][/\ C16_WritesOnlyOnSuccess
       /\ \A r \in Reqs : C16_ValidationBeforeStore(r)'
      ]_vars

\* The collections hold a user and a note, and the last request, an update
\* without a title and without a content, was answered 400.
C16_Witness ==
    \E r \in Reqs :
        /\ Done(r) /\ req[r].op = "editNote"
        /\ req[r].title = "" /\ req[r].content = ""
        /\ req[r].status = 400 /\ req[r].calls = 0
        /\ NoteStored(r)
        /\ users # <<>>

(***************************************************************************)
(* C17.  A successful update changes only the title and the content of the *)
(* one note that matches (caller, id): the id and the owner of that note,  *)
(* every other note and the users collection stay as they are, so every    *)
(* note keeps the owner and the id it was created with for as long as it   *)
(* is stored.                                                              *)
(***************************************************************************)
\* The write of r's update.
C17_UpdateFrame(r) ==
    (req[r].pc = "edit_update" /\ req'[r].pc = "done" /\ req'[r].status = 200)
    => /\ users' = users
       /\ Len(notes') = Len(notes)
       /\ \A i \in DOMAIN notes :
             /\ notes'[i]._id = notes[i]._id
             /\ notes'[i].username = notes[i].username
             /\ ~(notes[i].username = Caller(r) /\ notes[i]._id = req[r].noteId)
                => notes'[i] = notes[i]
       /\ Cardinality({i \in DOMAIN notes : notes'[i] # notes[i]}) <= 1

\* Every stored note has its own id and the owner that id was created for.
C17_OwnerAndIdAsCreated ==
    /\ \A i \in DOMAIN notes :
          /\ notes[i]._id \in DOMAIN created
          /\ notes[i].username = created[notes[i]._id].username
    /\ \A i, j \in DOMAIN notes : i # j => notes[i]._id # notes[j]._id

C17_UpdateChangesOnlyItsNote ==
    [][(\A r \in Reqs : C17_UpdateFrame(r)) /\ C17_OwnerAndIdAsCreated']_vars

\* An update has been applied to one of two notes of the same owner; the
\* other still has the title and the content it was created with.
C17_Witness ==
    \E r \in Reqs, i, j \in DOMAIN notes :
        /\ Done(r) /\ req[r].op = "editNote" /\ req[r].matched
        /\ req[r].title = "t2" /\ req[r].content = "c2"
        /\ notes[i]._id = req[r].noteId
        /\ notes[i].title = "t2" /\ notes[i].content = "c2"
        /\ i # j
        /\ notes[j].username = notes[i].username
        /\ notes[j].title = "t1" /\ notes[j].content = "c1"

(***************************************************************************)
(* C18.  In every reachable state every stored note has a non-empty title, *)
(* a non-empty content and an owner that is the username of a registered   *)
(* user; no sequence of creates and updates, updates with an empty string  *)
(* for one field included, stores an empty title or content.               *)
(***************************************************************************)
C18_NotesWellFormed ==
    \A i \in DOMAIN notes :
        /\ notes[i].title # ""
        /\ notes[i].content # ""
        /\ \E j \in DOMAIN users : users[j].username = notes[i].username

\* An update with an empty content has been applied, and the note has the
\* new title and the content it had.
C18_Witness ==
    \E r \in Reqs, i \in DOMAIN notes :
        /\ Done(r) /\ req[r].op = "editNote" /\ req[r].matched
        /\ req[r].title = "t2" /\ req[r].content = ""
        /\ notes[i]._id = req[r].noteId
        /\ notes[i].title = "t2" /\ notes[i].content # ""

====
